---- MODULE Spec2Model ----
(***************************************************************************)
(* NeuralVault Python backend: the in-memory ingestion queue with its      *)
(* single worker (app/workers/queue_manager.py), the resource processor    *)
(* (app/workers/processors.py) and the vector-store operations it drives   *)
(* (app/services/vector_service.py), with the startup/shutdown hooks of    *)
(* app/core/events.py.                                                     *)
(*                                                                         *)
(* Durable state: the resources table (SQLite) and the vector points       *)
(* (Qdrant).  Volatile state: the asyncio queue, the _running flag, the    *)
(* worker task(s) and the position of each job execution.  Every await at  *)
(* which another coroutine can run separates two actions; a commit is the  *)
(* instant at which the row changes become visible.                        *)
(***************************************************************************)
EXTENDS Integers, Sequences, FiniteSets, TLC

\* ------------------------------------------------------------------ bounds
Resources == 1..2       \* resource ids a job may name
MaxEnqueue == 1         \* POST /ingest requests per behaviour
MaxFaults == 1          \* transient infrastructure faults per behaviour
MaxTasks == 2           \* worker tasks created per behaviour
MaxStops == 2           \* stop_worker calls per behaviour
MaxLimit == 2           \* the limit of a search request
MaxScore == 2           \* distinct score values of a retrieval
MaxPages == 2           \* pages of a PDF text
MaxWords == 3           \* words of a page
MaxOverlap == 1         \* tokens two consecutive chunks share
MaxSubs == 2            \* GET /ingest/stream subscriptions per behaviour
MaxBcast == 2           \* ProgressBroadcaster broadcast calls per behaviour
MaxConns == 2           \* WebSocket connections per behaviour
MaxNotify == 1          \* notify_progress calls per behaviour (WebSocket runs)

\* ------------------------------------------------------ program constants
max_retries == 3        \* IngestionJob.max_retries default

NULL == "null"

\* JobType / JobAction / SyncStatus / ProcessingStage enums
INGEST_RESOURCE == "ingest_resource"
DELETE_RESOURCE == "delete_resource"
JobActions == {"created", "updated", "deleted"}
SyncStatus == {"pending", "synced", "dirty", "error"}
ProcessingStage == {"todo", "chunking", "embedding", "done"}

StageRank(s) ==
  CASE s = "todo" -> 0
    [] s = "chunking" -> 1
    [] s = "embedding" -> 2
    [] s = "done" -> 3

\* ---------------------------------------------------- resource contents
\* What a row's content/file_path/file_type make the processor see:
\*   none        content empty, no file_path
\*   blank       content is whitespace only
\*   one, two    inline content the splitter cuts into 1 resp. 2 chunks
\*   unsupported file_path of a type parse_file does not implement
\*   missing     file_path of a file that does not exist
\*   url         file_path with file_type url (parse_file raises ValueError)
\*   nochunk     inline text for which the splitter returns no chunk
Contents == {"none", "blank", "one", "two", "unsupported", "missing", "url", "old",
             "nochunk"}

HasInline(c) == c \in {"blank", "one", "two", "old", "nochunk"}
HasFile(c) == c \in {"unsupported", "missing", "url"}

\* FileService.parse_file: the exception it raises for a file_path
parse_file(c) ==
  CASE c = "unsupported" -> "NotImplementedError"
    [] c = "missing" -> "FileNotFoundError"
    [] c = "url" -> "ValueError"
    [] OTHER -> "ok"

\* not text_content or not text_content.strip()
IsBlank(c) == c \in {"none", "blank"}

\* VectorService.chunk_text: the number of chunks, indexed 0..n-1
chunk_text(c) ==
  CASE c = "one" -> 1
    [] c = "two" -> 2
    [] c = "old" -> 2
    [] OTHER -> 0

FileHash(r) == "hash"

\* ------------------------------------------------------------- variables
VARIABLES
  resources,    \* resources table: resource_id -> row
  points,       \* Qdrant collection: set of points
  queue,        \* IngestionQueue._queue
  running,      \* IngestionQueue._running
  worker_task,  \* IngestionQueue._worker_task (0 = None)
  tasks,        \* the worker tasks ever created in this process
  stopping,     \* the tasks that stop_worker calls in progress wait for
  booted,       \* startup_handler has run in this process
  nTasks, nJobs, nEnq, nFaults, nStops,
  attempts,     \* history: processor calls per job
  fails,        \* history: processor calls per job that raised
  outcome,      \* history: where each job is
  spawned,      \* history: the job created under each id
  emitted,      \* the progress_callback calls of the last processor step
  store_up,     \* the vector store answers requests
  subscribers,  \* ProgressBroadcaster._subscribers
  buffers,      \* the asyncio.Queue of each subscriber
  delivered,    \* history: the lines each subscriber's generator has yielded
  regAt,        \* history: broadcasts made before the subscriber registered
  unregAt,      \* history: broadcasts made before it was removed (-1: not yet)
  nSubs, nBcast,
  connections,  \* ConnectionManager._active_connections
  link,         \* the peer of each WebSocket: "ok", "slow" or "dead"
  ws_queued,    \* broadcast tasks created and not yet started
  ws_tasks,     \* _send_safe tasks that have not finished
  ws_lock,      \* ConnectionManager._lock: the _send_safe task holding it
  ws_sent,      \* history: the messages written to each WebSocket
  ws_log,       \* history: the message of each notify_progress call
  nConns, nNotify,
  search_req,   \* the hybrid search request being served (limit 0: none)
  search_res,   \* its two retrievals and its response
  status_res,   \* the answer GET /ingest/status gave for each id, if asked
  doc,          \* an extracted text: 0 is a word, n > 0 the marker [Page n]
  chunks        \* the TextChunk list chunk_text has returned for it

\* POST /search/hybrid, GET /ingest/status and the chunker on its own
searchvars == <<search_req, search_res, status_res, doc, chunks>>

\* the progress stream and the WebSocket channel
streamvars == <<store_up, subscribers, buffers, delivered, regAt, unregAt,
                nSubs, nBcast, connections, link, ws_queued, ws_tasks, ws_lock,
                ws_sent, ws_log, nConns, nNotify, searchvars>>

vars == <<resources, points, queue, running, worker_task, tasks, stopping,
          booted, nTasks, nJobs, nEnq, nFaults, nStops,
          attempts, fails, outcome, spawned, emitted, streamvars>>

MaxJobs == MaxEnqueue + Cardinality(Resources)
JobIds == 1..MaxJobs
TaskIds == 1..MaxTasks
SubIds == 1..MaxSubs
ConnIds == 1..MaxConns

\* ------------------------------------------------------------------ rows
Row(st, stage, err, ih, c, del) ==
  [exists |-> TRUE, is_deleted |-> del, sync_status |-> st,
   processing_stage |-> stage, last_error |-> err, indexed_hash |-> ih,
   content |-> c]

AbsentRow ==
  [exists |-> FALSE, is_deleted |-> FALSE, sync_status |-> "pending",
   processing_stage |-> "todo", last_error |-> NULL, indexed_hash |-> NULL,
   content |-> "none"]

\* One payload per chunk; the id (uuid4) is fresh for each execution and chunk.
Point(r, i, c, e) == [resource_id |-> r, chunk_index |-> i, text |-> c, exec |-> e]

ChunkPoints(r, c, e) == {Point(r, i, c, e) : i \in 0..(chunk_text(c) - 1)}

PointsOf(ps, r) == {p \in ps : p.resource_id = r}

\* ------------------------------------------------------------------ jobs
IngestionJob(id, jt, r, a) ==
  [id |-> id, job_type |-> jt, source_id |-> r, action |-> a,
   retry_count |-> 0]

NoneJob == [id |-> 0, job_type |-> "None", source_id |-> 0, action |-> "None",
            retry_count |-> 0]

IdleTask == [st |-> "none", job |-> NoneJob, pc |-> "-"]

\* asyncio.Queue.put: entries leave in the order they were put
QueuePut(q, j) == Append(q, j)

\* ------------------------------------------------------------------ Init
\* The durable state a process can find at start: rows written by the
\* desktop side (pending, dirty, soft-deleted), rows and points left by an
\* earlier run of the processor (synced, error), or by a run that was killed
\* between the upsert and the final commit.
InitDurable(r) ==
  {[row |-> AbsentRow, pts |-> {}]}
  \cup {[row |-> Row("pending", "todo", NULL, NULL, c, FALSE), pts |-> {}] :
          c \in {"one", "two", "none", "missing", "unsupported", "url", "nochunk"}}
  \cup {[row |-> Row("pending", "todo", NULL, NULL, "one", TRUE), pts |-> {}]}
  \cup {[row |-> Row("dirty", "done", NULL, "oldhash", c, FALSE),
         pts |-> ChunkPoints(r, "old", <<0, 0>>)] : c \in {"one", "blank"}}
  \cup {[row |-> Row("synced", "done", NULL, FileHash(r), "one", FALSE),
         pts |-> ChunkPoints(r, "one", <<0, 0>>)]}
  \cup {[row |-> Row("error", "chunking", "FileNotFoundError", NULL, "missing", FALSE),
         pts |-> {}]}
  \cup {[row |-> Row("error", "embedding", "QdrantError", NULL, "one", FALSE),
         pts |-> {}]}
  \cup {[row |-> Row("pending", "embedding", NULL, NULL, "one", FALSE),
         pts |-> ChunkPoints(r, "one", <<0, 0>>)]}

\* The rows of the second resource range over fewer kinds.
InitBystander(r) ==
  {d \in InitDurable(r) :
     \/ ~d.row.exists
     \/ d.row.content = "one" /\ d.row.sync_status \in {"pending", "synced"} /\ d.pts = {}
     \/ d.row.sync_status = "synced"
     \/ d.row.sync_status = "dirty" /\ d.row.content = "blank"}

InitVolatile ==
  /\ queue = <<>>
  /\ running = FALSE
  /\ worker_task = 0
  /\ tasks = [t \in TaskIds |-> IdleTask]
  /\ stopping = {}
  /\ booted = FALSE
  /\ nTasks = 0 /\ nJobs = 0
  /\ nEnq = 0 /\ nFaults = 0 /\ nStops = 0
  /\ attempts = [j \in JobIds |-> 0]
  /\ fails = [j \in JobIds |-> 0]
  /\ outcome = [j \in JobIds |-> "unborn"]
  /\ spawned = [j \in JobIds |-> NoneJob]
  /\ emitted = <<>>

\* no search request has been made
NoRequest == [scoped |-> FALSE, ids |-> {}, limit |-> 0, dense |-> <<>>, sparse |-> <<>>]

NoResponse == [dense |-> <<>>, sparse |-> <<>>, results |-> <<>>]

\* the status of an id has not been asked for
NoStatus == [resource_id |-> 0, status |-> "-", error |-> NULL]

\* ProgressBroadcaster.__init__ and ConnectionManager.__init__
InitStream ==
  /\ subscribers = <<>>
  /\ buffers = [s \in SubIds |-> <<>>]
  /\ delivered = [s \in SubIds |-> <<>>]
  /\ regAt = [s \in SubIds |-> 0]
  /\ unregAt = [s \in SubIds |-> -1]
  /\ nSubs = 0 /\ nBcast = 0
  /\ connections = <<>>
  /\ link = [c \in ConnIds |-> "ok"]
  /\ ws_queued = {}
  /\ ws_tasks = {}
  /\ ws_lock = [conn |-> 0, msg |-> 0]
  /\ ws_sent = [c \in ConnIds |-> <<>>]
  /\ ws_log = <<>>
  /\ nConns = 0 /\ nNotify = 0
  /\ search_req = NoRequest
  /\ search_res = NoResponse
  /\ status_res = [r \in Resources |-> NoStatus]
  /\ chunks = <<>>

Init ==
  /\ \E d1 \in InitDurable(1), d2 \in InitBystander(2) :
       /\ resources = [r \in Resources |-> IF r = 1 THEN d1.row ELSE d2.row]
       /\ points = d1.pts \cup d2.pts
  /\ InitVolatile
  /\ InitStream
  /\ doc = <<>>
  /\ store_up = TRUE

\* The lifecycle runs start from one pending row, whose job succeeds or
\* raises on every attempt; jobs for the other id find no row.
InitControl ==
  /\ \E d1 \in InitDurable(1), d2 \in InitBystander(2) :
       /\ d1.row.sync_status = "pending" /\ d1.row.content \in {"two", "url"}
       /\ ~d1.row.is_deleted /\ d1.row.processing_stage = "todo"
       /\ ~d2.row.exists
       /\ resources = [r \in Resources |-> IF r = 1 THEN d1.row ELSE d2.row]
       /\ points = d1.pts \cup d2.pts
  /\ InitVolatile
  /\ InitStream
  /\ doc = <<>>
  /\ store_up = TRUE

\* ------------------------------------------------- IngestionQueue control
\* the task is inside a call of the processor
Busy(t) == tasks[t].st = "busy"

\* start_worker: the guard on _running, then a new task at the top of
\* _worker_loop.
start_worker ==
  IF running
    THEN UNCHANGED <<running, worker_task, tasks, nTasks>>
    ELSE /\ running' = TRUE
         /\ nTasks' = nTasks + 1
         /\ worker_task' = nTasks + 1
         /\ tasks' = [tasks EXCEPT ![nTasks + 1] = [IdleTask EXCEPT !.st = "loop"]]

\* the startup scan without SyncStatus.error in its filter
PendingRows_no_error ==
  {r \in Resources :
     /\ resources[r].exists
     /\ resources[r].sync_status \in {"pending", "dirty"}
     /\ resources[r].is_deleted = FALSE}

\* rebuild_pending_queue: the rows the startup scan selects
PendingRows ==
  {r \in Resources :
     /\ resources[r].exists
     /\ resources[r].sync_status \in {"pending", "dirty", "error"}
     /\ resources[r].is_deleted = FALSE}

\* every rebuilt job marked as a creation
RebuildAction_created(r) == "created"

\* rebuild_pending_queue: UPDATED for a dirty row, CREATED otherwise
RebuildAction(r) ==
  IF resources[r].sync_status = "dirty" THEN "updated" ELSE "created"

Orders(S) ==
  {o \in [1..Cardinality(S) -> S] : \A i, k \in 1..Cardinality(S) : o[i] = o[k] => i = k}

\* the queue after the scan has enqueued one job per selected row, in the
\* order o in which the query returned the rows
RECURSIVE RebuildQueue(_, _, _, _)
RebuildQueue(q, o, i, id) ==
  IF i > Len(o) THEN q
  ELSE RebuildQueue(
         QueuePut(q, IngestionJob(id + i, INGEST_RESOURCE, o[i], RebuildAction(o[i]))),
         o, i + 1, id)

rebuild_pending_queue ==
  \E o \in Orders(PendingRows) :
    /\ queue' = RebuildQueue(queue, o, 1, nJobs)
    /\ nJobs' = nJobs + Len(o)
    /\ outcome' = [j \in JobIds |->
                     IF j \in (nJobs + 1)..(nJobs + Len(o)) THEN "queued" ELSE outcome[j]]
    /\ spawned' = [j \in JobIds |->
                     IF j \in (nJobs + 1)..(nJobs + Len(o))
                       THEN IngestionJob(j, INGEST_RESOURCE, o[j - nJobs], RebuildAction(o[j - nJobs]))
                       ELSE spawned[j]]

\* startup_handler: set_processor, start_worker, then rebuild_pending_queue.
\* No request is served before it returns, so the worker it starts finds the
\* queue empty until the scan fills it.
Startup ==
  /\ ~booted
  /\ nTasks < MaxTasks
  /\ booted' = TRUE
  /\ start_worker
  /\ rebuild_pending_queue
  /\ UNCHANGED <<resources, points, stopping, nEnq, nFaults,
                 attempts, fails, nStops>>
  /\ emitted' = <<>>
  /\ UNCHANGED streamvars

\* A further start_worker call on the singleton, at any moment another
\* coroutine can run: also while a stop_worker call is at its wait_for.
StartWorker ==
  /\ booted
  /\ nTasks < MaxTasks
  /\ start_worker
  /\ UNCHANGED <<resources, points, queue, stopping, booted, nJobs, nEnq, nFaults, attempts, fails, outcome, nStops, spawned>>
  /\ emitted' = <<>>
  /\ UNCHANGED streamvars

\* POST /ingest: the job built from the request, then enqueue
RequestJob(id, r, a) ==
  IngestionJob(id, IF a = "deleted" THEN DELETE_RESOURCE ELSE INGEST_RESOURCE, r, a)

\* a queue of capacity 1: put waits while an entry is waiting
enqueue_bounded(job) == Len(queue) < 1 /\ queue' = QueuePut(queue, job)

\* the new job put in front of the waiting ones
enqueue_at_head(job) == queue' = <<job>> \o queue

\* IngestionQueue.enqueue: put on the unbounded asyncio.Queue
enqueue(job) == queue' = QueuePut(queue, job)

Enqueue(r, a) ==
  /\ booted
  /\ nEnq < MaxEnqueue
  /\ nEnq' = nEnq + 1
  /\ nJobs' = nJobs + 1
  /\ enqueue(RequestJob(nJobs + 1, r, a))
  /\ outcome' = [outcome EXCEPT ![nJobs + 1] = "queued"]
  /\ spawned' = [spawned EXCEPT ![nJobs + 1] = RequestJob(nJobs + 1, r, a)]
  /\ UNCHANGED <<resources, points, running, worker_task, tasks, stopping, booted,
                 nTasks, nFaults, attempts, fails, nStops>>
  /\ emitted' = <<>>
  /\ UNCHANGED streamvars

\* stop_worker up to its wait: clear _running and, if a task was ever
\* created, put the None wake-up entry and wait for the task that
\* _worker_task names at this moment
StopBegin ==
  /\ booted
  /\ nStops < MaxStops
  /\ nStops' = nStops + 1
  /\ running' = FALSE
  /\ IF worker_task # 0
       THEN /\ queue' = QueuePut(queue, NoneJob)
            /\ stopping' = stopping \cup {worker_task}
       ELSE UNCHANGED <<queue, stopping>>
  /\ UNCHANGED <<resources, points, worker_task, tasks, booted, nTasks, nJobs, nEnq, nFaults, attempts, fails, outcome, spawned>>
  /\ emitted' = <<>>
  /\ UNCHANGED streamvars

\* wait_for returns because the awaited task has ended
StopJoin(t) ==
  /\ t \in stopping
  /\ tasks[t].st = "ended"
  /\ stopping' = stopping \ {t}
  /\ UNCHANGED <<resources, points, queue, running, worker_task, tasks, booted,
                 nTasks, nJobs, nEnq, nFaults, attempts,
                 fails, outcome, nStops, spawned>>
  /\ emitted' = <<>>
  /\ UNCHANGED streamvars

\* wait_for times out while the awaited task is inside a job or waits at
\* get() on an empty queue: the task is cancelled at its await,
\* CancelledError passes the "except Exception" handlers and ends
\* _worker_loop; uncommitted row changes are discarded
StopTimeout(t) ==
  /\ t \in stopping
  /\ Busy(t) \/ (tasks[t].st = "wait" /\ queue = <<>>)
  /\ stopping' = stopping \ {t}
  /\ tasks' = [tasks EXCEPT ![t] = [IdleTask EXCEPT !.st = "ended"]]
  /\ outcome' = IF Busy(t) THEN [outcome EXCEPT ![tasks[t].job.id] = "lost"]
                          ELSE outcome
  /\ UNCHANGED <<resources, points, queue, running, worker_task, booted, nTasks,
                 nJobs, nEnq, nFaults, attempts, fails, nStops, spawned>>
  /\ emitted' = <<>>
  /\ UNCHANGED streamvars

\* ------------------------------------------------------------ the worker

\* _worker_loop, the first "while self._running" of a new task: leave the
\* loop or go on to get()
LoopCheck(t) ==
  /\ tasks[t].st = "loop"
  /\ tasks' = [tasks EXCEPT ![t].st = IF running THEN "wait" ELSE "ended"]
  /\ UNCHANGED <<resources, points, queue, running, worker_task, stopping, booted,
                 nTasks, nJobs, nEnq, nFaults, attempts,
                 fails, outcome, nStops, spawned>>
  /\ emitted' = <<>>
  /\ UNCHANGED streamvars

\* the first position of process_ingestion_job for a job type
FirstPc(job) == IF job.job_type = INGEST_RESOURCE THEN "fetch" ELSE "delete"

\* "job = await self._queue.get()": the None entry ends the loop, a job is
\* handed to _process_job, which calls the processor
Take(t) ==
  /\ tasks[t].st = "wait"
  /\ queue # <<>>
  /\ LET job == Head(queue) IN
       /\ queue' = Tail(queue)
       /\ IF job.job_type = "None"
            THEN /\ tasks' = [tasks EXCEPT ![t].st = "ended"]
                 /\ UNCHANGED <<attempts, outcome>>
            ELSE /\ tasks' = [tasks EXCEPT ![t] =
                       [st |-> "busy", job |-> job, pc |-> FirstPc(job)]]
                 /\ attempts' = [attempts EXCEPT ![job.id] = @ + 1]
                 /\ outcome' = [outcome EXCEPT ![job.id] = "running"]
  /\ UNCHANGED <<resources, points, running, worker_task, stopping, booted, nTasks,
                 nJobs, nEnq, nFaults, fails, nStops, spawned>>
  /\ emitted' = <<>>
  /\ UNCHANGED streamvars

\* the loop left after the first job
NextIteration_exits == [IdleTask EXCEPT !.st = "ended"]

\* _worker_loop, "while self._running" evaluated without an await after
\* _process_job has returned: on to the next get(), or out of the loop
NextIteration == [IdleTask EXCEPT !.st = IF running THEN "wait" ELSE "ended"]

\* the job put back after a normal return as well
JobReturns_requeues(t) ==
  /\ tasks' = [tasks EXCEPT ![t] = NextIteration]
  /\ outcome' = [outcome EXCEPT ![tasks[t].job.id] = "ok"]
  /\ queue' = QueuePut(queue, [tasks[t].job EXCEPT !.retry_count = @ + 1])
  /\ UNCHANGED fails

\* _process_job, the processor returned
JobReturns(t) ==
  /\ tasks' = [tasks EXCEPT ![t] = NextIteration]
  /\ outcome' = [outcome EXCEPT ![tasks[t].job.id] = "ok"]
  /\ UNCHANGED <<queue, fails>>

\* the retry test with <= for <
ShouldRetry_inclusive(job) == job.retry_count <= max_retries

\* _process_job, "if job.retry_count < job.max_retries"
ShouldRetry(job) == job.retry_count < max_retries

\* the retried job put in front of the waiting ones
Requeue_at_head(q, job) == <<[job EXCEPT !.retry_count = @ + 1]>> \o q

\* _process_job, "await self._queue.put(job)" of the retried job
Requeue(q, job) == QueuePut(q, [job EXCEPT !.retry_count = @ + 1])

\* the exception of the processor passed on to _worker_loop, which ends
JobRaises_ends(t) ==
  LET job == tasks[t].job IN
    /\ tasks' = [tasks EXCEPT ![t] = [IdleTask EXCEPT !.st = "ended"]]
    /\ fails' = [fails EXCEPT ![job.id] = @ + 1]
    /\ outcome' = [outcome EXCEPT ![job.id] = "dropped"]
    /\ UNCHANGED queue

\* _process_job, the processor raised: retry at the tail or drop
JobRaises(t) ==
  LET job == tasks[t].job IN
    /\ tasks' = [tasks EXCEPT ![t] = NextIteration]
    /\ fails' = [fails EXCEPT ![job.id] = @ + 1]
    /\ IF ShouldRetry(job)
         THEN /\ queue' = Requeue(queue, job)
              /\ outcome' = [outcome EXCEPT ![job.id] = "queued"]
         ELSE /\ outcome' = [outcome EXCEPT ![job.id] = "dropped"]
              /\ UNCHANGED queue

\* ------------------------------------------- _process_resource_ingestion
\* the handler marking the row synced
MarkError_as_synced(rs, r, msg) ==
  [rs EXCEPT ![r].sync_status = "synced", ![r].last_error = msg]

\* the error status without the message
MarkError_no_message(rs, r, msg) == [rs EXCEPT ![r].sync_status = "error"]

\* the error assignments with the stage put back to todo
MarkError_reset_stage(rs, r, msg) ==
  [rs EXCEPT ![r].sync_status = "error", ![r].last_error = msg,
             ![r].processing_stage = "todo"]

\* the rows after "resource.sync_status = error; resource.last_error = str(e)"
MarkError(rs, r, msg) ==
  [rs EXCEPT ![r].sync_status = "error", ![r].last_error = msg]

\* the zero-chunk success without the indexed_hash assignment
MarkSyncedEmpty_keeps_hash(rs, r) ==
  [rs EXCEPT ![r].sync_status = "synced", ![r].processing_stage = "done"]

\* the rows after the success assignments of the zero-chunk paths
MarkSyncedEmpty(rs, r) ==
  [rs EXCEPT ![r].sync_status = "synced", ![r].processing_stage = "done",
             ![r].indexed_hash = FileHash(r)]

\* the success assignments made on every row of the table
MarkSynced_all_rows(rs, r) ==
  [x \in Resources |->
     IF rs[x].exists
       THEN [rs[x] EXCEPT !.sync_status = "synced", !.processing_stage = "done",
                          !.indexed_hash = FileHash(x), !.last_error = NULL]
       ELSE rs[x]]

\* step 7 without "resource.last_error = None"
MarkSynced_keeps_error(rs, r) ==
  [rs EXCEPT ![r].sync_status = "synced", ![r].processing_stage = "done",
             ![r].indexed_hash = FileHash(r)]

\* the rows after the success assignments of step 7
MarkSynced(rs, r) ==
  [rs EXCEPT ![r].sync_status = "synced", ![r].processing_stage = "done",
             ![r].indexed_hash = FileHash(r), ![r].last_error = NULL]

\* the handler without its "raise": the error is recorded and the processor
\* returns normally
ExceptionHandler_swallows(t, msg, recorded) ==
  LET r == tasks[t].job.source_id IN
    /\ resources' = IF recorded /\ resources[r].exists
                      THEN MarkError(resources, r, msg) ELSE resources
    /\ JobReturns(t)

\* "except Exception": rollback, then record the error on the row if it is
\* still there (recorded = FALSE: that commit fails too and is swallowed),
\* then re-raise to _process_job
ExceptionHandler(t, msg, recorded) ==
  LET r == tasks[t].job.source_id IN
    /\ resources' = IF recorded /\ resources[r].exists
                      THEN MarkError(resources, r, msg) ELSE resources
    /\ JobRaises(t)

\* progress_callback(resource_id, stage, percentage)
Progress(r, stage, pct) == [resource_id |-> r, status |-> stage, percentage |-> pct]

\* the missing row treated as a failure of the job
FetchMissing_raises(t) ==
  /\ JobRaises(t)
  /\ emitted' = <<>>
  /\ UNCHANGED resources

\* "if not resource: return": the job ends, nothing written, no callback
FetchMissing(t) ==
  /\ JobReturns(t)
  /\ emitted' = <<>>
  /\ UNCHANGED resources

\* 1. Fetch: a missing row ends the job silently; otherwise the stage is
\* set to chunking and committed, and progress 10 is reported
Fetch(t) ==
  /\ Busy(t) /\ tasks[t].pc = "fetch"
  /\ LET r == tasks[t].job.source_id IN
       IF ~resources[r].exists
         THEN FetchMissing(t)
         ELSE /\ resources' = [resources EXCEPT ![r].processing_stage = "chunking"]
              /\ tasks' = [tasks EXCEPT ![t].pc = "parse"]
              /\ emitted' = <<Progress(r, "chunking", 10)>>
              /\ UNCHANGED <<queue, fails, outcome>>
  /\ UNCHANGED <<points, running, worker_task, stopping, booted, nTasks, nJobs,
                 nEnq, nFaults, attempts, nStops, spawned>>
  /\ UNCHANGED streamvars

\* only the unsupported type handled as a content error
IsContentError_unsupported_only(e) == e = "NotImplementedError"

\* the exceptions of parse_file that have their own "except" clause
IsContentError(e) == e \in {"NotImplementedError", "FileNotFoundError"}

\* 2. Parse and 3. Chunk, up to the commit of the embedding stage
Parse(t) ==
  /\ Busy(t) /\ tasks[t].pc = "parse"
  /\ LET r == tasks[t].job.source_id
         c == resources[r].content
         e == IF HasInline(c) THEN "ok" ELSE IF HasFile(c) THEN parse_file(c) ELSE "ok"
     IN
       CASE IsContentError(e) ->
              /\ resources' = MarkError(resources, r, e)
              /\ emitted' = <<>>
              /\ JobReturns(t)
         [] e # "ok" /\ ~IsContentError(e) ->
              /\ emitted' = <<>>
              /\ ExceptionHandler(t, e, TRUE)
         [] e = "ok" /\ IsBlank(c) ->
              /\ resources' = MarkSyncedEmpty(resources, r)
              /\ emitted' = <<Progress(r, "done", 100)>>
              /\ JobReturns(t)
         [] e = "ok" /\ ~IsBlank(c) /\ chunk_text(c) = 0 ->
              /\ resources' = MarkSyncedEmpty(resources, r)
              /\ emitted' = <<Progress(r, "chunking", 30), Progress(r, "done", 100)>>
              /\ JobReturns(t)
         [] OTHER ->
              /\ resources' = [resources EXCEPT ![r].processing_stage = "embedding"]
              /\ tasks' = [tasks EXCEPT ![t].pc =
                             IF tasks[t].job.action = "updated" THEN "delete_old" ELSE "upsert"]
              /\ emitted' = <<Progress(r, "chunking", 30), Progress(r, "embedding", 50)>>
              /\ UNCHANGED <<queue, fails, outcome>>
  /\ UNCHANGED <<points, running, worker_task, stopping, booted, nTasks, nJobs,
                 nEnq, nFaults, attempts, nStops, spawned>>
  /\ UNCHANGED streamvars

\* the delete without its resource_id filter
delete_by_resource_unfiltered(ps, r) == {}

\* VectorService.delete_by_resource: the filter delete on payload resource_id
delete_by_resource(ps, r) == {p \in ps : p.resource_id # r}

\* VectorService.upsert_chunks: one point per chunk under a fresh uuid
upsert_chunks(ps, r, c, e) == ps \cup ChunkPoints(r, c, e)

\* a request to the vector store raises: always while the store is
\* unreachable, otherwise as one of the transient faults
StoreFails ==
  \/ ~store_up /\ UNCHANGED nFaults
  \/ store_up /\ nFaults < MaxFaults /\ nFaults' = nFaults + 1

\* 4. "if action == JobAction.UPDATED": delete the old points first
DeleteOld(t) ==
  /\ Busy(t) /\ tasks[t].pc = "delete_old"
  /\ LET r == tasks[t].job.source_id IN
       \/ /\ store_up
          /\ points' = delete_by_resource(points, r)
          /\ tasks' = [tasks EXCEPT ![t].pc = "upsert"]
          /\ UNCHANGED <<resources, queue, fails, outcome, nFaults>>
       \/ /\ StoreFails
          /\ ExceptionHandler(t, "QdrantError", TRUE)
          /\ UNCHANGED points
  /\ emitted' = <<>>
  /\ UNCHANGED <<running, worker_task, stopping, booted, nTasks, nJobs, nEnq, attempts, nStops, spawned>>
  /\ UNCHANGED streamvars

\* the execution a point was written by: job and attempt (stands for
\* the fresh uuid4 of the point)
Attempt(job) == <<job.id, job.retry_count>>

\* 5. Embed and upsert all chunks in one batch, then report progress 80
Upsert(t) ==
  /\ Busy(t) /\ tasks[t].pc = "upsert"
  /\ LET r == tasks[t].job.source_id IN
       \/ /\ store_up
          /\ points' = upsert_chunks(points, r, resources[r].content, Attempt(tasks[t].job))
          /\ tasks' = [tasks EXCEPT ![t].pc = "commit"]
          /\ emitted' = <<Progress(r, "embedding", 80)>>
          /\ UNCHANGED <<resources, queue, fails, outcome, nFaults>>
       \/ /\ StoreFails
          /\ ExceptionHandler(t, "QdrantError", TRUE)
          /\ emitted' = <<>>
          /\ UNCHANGED points
  /\ UNCHANGED <<running, worker_task, stopping, booted, nTasks, nJobs, nEnq, attempts, nStops, spawned>>
  /\ UNCHANGED streamvars

\* 6./7. add the chunk rows, mark the resource synced, commit, then report
\* progress 100
Commit(t) ==
  /\ Busy(t) /\ tasks[t].pc = "commit"
  /\ LET r == tasks[t].job.source_id IN
       \/ /\ resources' = MarkSynced(resources, r)
          /\ emitted' = <<Progress(r, "done", 100)>>
          /\ JobReturns(t)
          /\ UNCHANGED nFaults
       \/ /\ nFaults < MaxFaults
          /\ nFaults' = nFaults + 1
          /\ emitted' = <<>>
          /\ \E recorded \in BOOLEAN : ExceptionHandler(t, "CommitError", recorded)
  /\ UNCHANGED <<points, running, worker_task, stopping, booted, nTasks, nJobs,
                 nEnq, attempts, nStops, spawned>>
  /\ UNCHANGED streamvars

\* _process_resource_deletion
DeleteJob(t) ==
  /\ Busy(t) /\ tasks[t].pc = "delete"
  /\ LET r == tasks[t].job.source_id IN
       \/ /\ store_up
          /\ points' = delete_by_resource(points, r)
          /\ JobReturns(t)
          /\ UNCHANGED nFaults
       \/ /\ StoreFails
          /\ JobRaises(t)
          /\ UNCHANGED points
  /\ emitted' = <<>>
  /\ UNCHANGED <<resources, running, worker_task, stopping, booted, nTasks, nJobs,
                 nEnq, attempts, nStops, spawned>>
  /\ UNCHANGED streamvars

\* ------------------------------------------------- ProgressBroadcaster
\* the queue, the worker and the stores
corevars == <<resources, points, queue, running, worker_task, tasks, stopping,
              booted, nTasks, nJobs, nEnq, nFaults, nStops, attempts, fails,
              outcome, spawned, store_up, searchvars>>

\* the WebSocket channel
wsvars == <<connections, link, ws_queued, ws_tasks, ws_lock, ws_sent, ws_log,
            nConns, nNotify>>

Range(q) == {q[i] : i \in 1..Len(q)}

\* the first entry removed, whichever queue is leaving
Remove_head(q, x) == Tail(q)

\* subscribe, finally: "if queue in self._subscribers: remove(queue)"
Remove(q, x) == SelectSeq(q, LAMBDA y : y # x)

\* a subscriber queue that holds one message at most
QueueFull_bounded(buf) == Len(buf) >= 1

\* subscribe: "queue = asyncio.Queue()", no maxsize: full() is never true,
\* so put() returns without suspending
QueueFull(buf) == FALSE

\* GET /ingest/stream, the generator's first step: a fresh queue is
\* appended to _subscribers
Subscribe ==
  /\ nSubs < MaxSubs
  /\ nSubs' = nSubs + 1
  /\ subscribers' = Append(subscribers, nSubs + 1)
  /\ regAt' = [regAt EXCEPT ![nSubs + 1] = nBcast]
  /\ emitted' = <<>>
  /\ UNCHANGED <<buffers, delivered, unregAt, nBcast>>
  /\ UNCHANGED corevars
  /\ UNCHANGED wsvars

\* the generator is closed (client gone): "finally" removes the queue
Unsubscribe(s) ==
  /\ s \in Range(subscribers)
  /\ subscribers' = Remove(subscribers, s)
  /\ unregAt' = [unregAt EXCEPT ![s] = nBcast]
  /\ emitted' = <<>>
  /\ UNCHANGED <<buffers, delivered, regAt, nSubs, nBcast>>
  /\ UNCHANGED corevars
  /\ UNCHANGED wsvars

\* the generator takes the next message from its queue and yields the line
Read(s) ==
  /\ s \in Range(subscribers)
  /\ buffers[s] # <<>>
  /\ delivered' = [delivered EXCEPT ![s] = Append(@, Head(buffers[s]))]
  /\ buffers' = [buffers EXCEPT ![s] = Tail(@)]
  /\ emitted' = <<>>
  /\ UNCHANGED <<subscribers, regAt, unregAt, nSubs, nBcast>>
  /\ UNCHANGED corevars
  /\ UNCHANGED wsvars

\* the message put to every queue, registered or not
Deliver_everyone(bufs, subs, m) == [s \in SubIds |-> Append(bufs[s], m)]

\* the message put to the first registered subscriber only
Deliver_first_only(bufs, subs, m) ==
  [s \in SubIds |-> IF subs # <<>> /\ subs[1] = s THEN Append(bufs[s], m) ELSE bufs[s]]

\* _broadcast_message: "for queue in subscribers: await queue.put(message)"
\* over the copy of _subscribers taken under the lock
Deliver(bufs, subs, m) ==
  [s \in SubIds |-> IF s \in Range(subs) THEN Append(bufs[s], m) ELSE bufs[s]]

\* the message of the k-th broadcast call; ty is "progress" (broadcast) or
\* "result" (broadcast_result)
Message(k, ty) == [id |-> k, type |-> ty]

\* broadcast / broadcast_result.  No holder of _lock suspends while it holds
\* it and put() on an unbounded queue does not suspend, so the call runs
\* from the copy of the list to the last put without another coroutine
\* running in between.
Broadcast(ty) ==
  /\ nBcast < MaxBcast
  /\ \A s \in Range(subscribers) : ~QueueFull(buffers[s])
  /\ nBcast' = nBcast + 1
  /\ buffers' = Deliver(buffers, subscribers, Message(nBcast + 1, ty))
  /\ emitted' = <<>>
  /\ UNCHANGED <<subscribers, delivered, regAt, unregAt, nSubs>>
  /\ UNCHANGED corevars
  /\ UNCHANGED wsvars

\* --------------------------------------------------- ConnectionManager
bcvars == <<subscribers, buffers, delivered, regAt, unregAt, nSubs, nBcast>>

\* nobody holds ConnectionManager._lock
LockFree == ws_lock.conn = 0

\* connect: accept, then append to _active_connections under the lock; l is
\* how the peer behaves from then on
WsConnect(l) ==
  /\ nConns < MaxConns
  /\ LockFree
  /\ nConns' = nConns + 1
  /\ connections' = Append(connections, nConns + 1)
  /\ link' = [link EXCEPT ![nConns + 1] = l]
  /\ emitted' = <<>>
  /\ UNCHANGED <<ws_queued, ws_tasks, ws_lock, ws_sent, ws_log, nNotify>>
  /\ UNCHANGED bcvars
  /\ UNCHANGED corevars

\* the WebSocketMessage of a call whose arguments do not matter
AnyMessage == [ev |-> [resource_id |-> 0, status |-> "-", percentage |-> 0], exec |-> 0]

\* notify_progress -> send_ingest_progress: the broadcast is handed to
\* asyncio.create_task and the caller returns
NotifyProgress ==
  /\ nNotify < MaxNotify
  /\ nNotify' = nNotify + 1
  /\ ws_queued' = ws_queued \cup {nNotify + 1}
  /\ ws_log' = Append(ws_log, AnyMessage)
  /\ emitted' = <<>>
  /\ UNCHANGED <<connections, link, ws_tasks, ws_lock, ws_sent, nConns>>
  /\ UNCHANGED bcvars
  /\ UNCHANGED corevars

\* asyncio.create_task: the event loop starts the tasks in the order in
\* which they were created (message ids count the notify_progress calls)
FirstCreated(queued, m) == \A k \in queued : m <= k

\* ConnectionManager.broadcast: returns at once without connections;
\* otherwise copies the list under the lock and starts one _send_safe task
\* per connection in a TaskGroup
WsBroadcast(m) ==
  /\ m \in ws_queued
  /\ FirstCreated(ws_queued, m)
  /\ connections = <<>> \/ LockFree
  /\ ws_queued' = ws_queued \ {m}
  /\ ws_tasks' = ws_tasks \cup {[conn |-> c, msg |-> m] : c \in Range(connections)}
  /\ emitted' = <<>>
  /\ UNCHANGED <<connections, link, ws_lock, ws_sent, ws_log, nConns, nNotify>>
  /\ UNCHANGED bcvars
  /\ UNCHANGED corevars

\* the sends to one connection completing in any order
Sendable_unordered(tks, c, m) == TRUE

\* TaskGroup: every _send_safe runs as its own task, whatever the tasks of
\* the other connections do; the tasks of one connection call send_text in
\* the order in which they were created
Sendable(tks, c, m) == \A tk \in tks : tk.conn = c => m <= tk.msg

\* _send_safe, send_text completes
WsSend(c, m) ==
  /\ [conn |-> c, msg |-> m] \in ws_tasks
  /\ Sendable(ws_tasks, c, m)
  /\ link[c] = "ok"
  /\ ws_tasks' = ws_tasks \ {[conn |-> c, msg |-> m]}
  /\ ws_sent' = [ws_sent EXCEPT ![c] = Append(@, m)]
  /\ emitted' = <<>>
  /\ UNCHANGED <<connections, link, ws_queued, ws_lock, ws_log, nConns, nNotify>>
  /\ UNCHANGED bcvars
  /\ UNCHANGED corevars

\* _send_safe, send_text raises: the exception is caught and disconnect
\* takes the lock; a connection still in the list is removed and closed
\* with the lock held, one already removed is left alone
WsSendFails(c, m) ==
  /\ [conn |-> c, msg |-> m] \in ws_tasks
  /\ Sendable(ws_tasks, c, m)
  /\ link[c] = "dead"
  /\ LockFree
  /\ IF c \in Range(connections)
       THEN /\ connections' = Remove(connections, c)
            /\ ws_lock' = [conn |-> c, msg |-> m]
            /\ UNCHANGED ws_tasks
       ELSE /\ ws_tasks' = ws_tasks \ {[conn |-> c, msg |-> m]}
            /\ UNCHANGED <<connections, ws_lock>>
  /\ emitted' = <<>>
  /\ UNCHANGED <<link, ws_queued, ws_sent, ws_log, nConns, nNotify>>
  /\ UNCHANGED bcvars
  /\ UNCHANGED corevars

\* disconnect, "await websocket.close()" has returned or raised: the lock
\* is released and the _send_safe task ends
WsClosed ==
  /\ ~LockFree
  /\ ws_tasks' = ws_tasks \ {ws_lock}
  /\ ws_lock' = [conn |-> 0, msg |-> 0]
  /\ emitted' = <<>>
  /\ UNCHANGED <<connections, link, ws_queued, ws_sent, ws_log, nConns, nNotify>>
  /\ UNCHANGED bcvars
  /\ UNCHANGED corevars

\* the number of processor calls made for resource r so far: the number
\* of the execution that is running or has run last
Execution(r) ==
  LET n(j) == IF spawned[j].source_id = r THEN attempts[j] ELSE 0
      sum[k \in 0..MaxJobs] == IF k = 0 THEN 0 ELSE sum[k - 1] + n(k)
  IN sum[MaxJobs]

\* progress_wrapper -> notify_progress for the callbacks the processor has
\* just made: one broadcast task per call, created in the order of the
\* calls; nothing else runs between the processor's call and the
\* create_task
ProgressCallback ==
  /\ emitted # <<>>
  /\ nNotify' = nNotify + Len(emitted)
  /\ ws_queued' = ws_queued \cup ((nNotify + 1)..(nNotify + Len(emitted)))
  /\ ws_log' = ws_log \o [i \in 1..Len(emitted) |->
                            [ev |-> emitted[i], exec |-> Execution(emitted[i].resource_id)]]
  /\ emitted' = <<>>
  /\ UNCHANGED <<connections, link, ws_tasks, ws_lock, ws_sent, nConns>>
  /\ UNCHANGED bcvars
  /\ UNCHANGED corevars

\* -------------------------------------------------------- hybrid search
\* The endpoint search_hybrid hands the request to
\* vector_service.search_hybrid and builds the response from what it
\* returns.  VectorService as it is in the source tree has no such method:
\* the two retrievals and the merge below follow the specification's
\* search operation.  (The endpoint also calls the coroutine function
\* DatabaseManager.get_instance without await before it gets there.)
Min2(a, b) == IF a <= b THEN a ELSE b

\* the sequences holding every element of S once, in descending order of
\* the score sc gives it; elements of equal score come in any order
RankedSeqs(S, sc) ==
  {o \in [1..Cardinality(S) -> S] :
     /\ \A i, k \in 1..Cardinality(S) : o[i] = o[k] => i = k
     /\ \A i \in 1..(Cardinality(S) - 1) : sc[o[i]] >= sc[o[i + 1]]}

\* a retrieval that ignores the scope
InScope_unfiltered(p, req) == TRUE

\* the filter of a retrieval: the point's resource_id is in the scope list
InScope(p, req) == ~req.scoped \/ p.resource_id \in req.ids

\* one search result of the vector store
Hit(p, sc) ==
  [resource_id |-> p.resource_id, chunk_index |-> p.chunk_index, score |-> sc[p]]

\* one top-limit retrieval (dense or sparse) over the points ps, scored by sc
Retrieve(ps, req, sc) ==
  LET F == {p \in ps : InScope(p, req)} IN
    {[i \in 1..Min2(req.limit, Len(o)) |-> Hit(o[i], sc)] : o \in RankedSeqs(F, sc)}

Key(h) == <<h.resource_id, h.chunk_index>>

Keys(hits) == {Key(hits[i]) : i \in 1..Len(hits)}

ScoresOf(hits, k) == {hits[i].score : i \in {n \in 1..Len(hits) : Key(hits[n]) = k}}

Highest(S) == CHOOSE m \in S : \A x \in S : m >= x

\* the dense score kept whenever the chunk is in the dense result set
MergedScore_dense_first(d, sp, k) ==
  IF ScoresOf(d, k) # {} THEN Highest(ScoresOf(d, k)) ELSE Highest(ScoresOf(sp, k))

\* the score of a chunk after the merge: the higher of its scores
MergedScore(d, sp, k) == Highest(ScoresOf(d, k) \cup ScoresOf(sp, k))

\* the merge of the two result sets: one entry per (resource_id,
\* chunk_index), sorted by descending merged score, cut at limit
Merge(d, sp, limit) ==
  LET K == Keys(d) \cup Keys(sp)
      ms == [k \in K |-> MergedScore(d, sp, k)]
  IN {[i \in 1..Min2(limit, Len(o)) |->
         [resource_id |-> o[i][1], chunk_index |-> o[i][2], score |-> ms[o[i]]]] :
        o \in RankedSeqs(K, ms)}

\* search_hybrid (endpoint): one SearchResultItem per result that carries
\* an id
SearchResponse(results) == SelectSeq(results, LAMBDA r : r.resource_id \in Resources)

\* search(query, scope, limit) and the response list built from its
\* results: the query is what it scores each indexed point at, under the
\* dense and under the sparse model
SearchHybrid ==
  /\ search_req.limit = 0
  /\ \E scoped \in BOOLEAN, ids \in (SUBSET Resources) \ {{}}, limit \in 1..MaxLimit,
        dense \in [points -> 1..MaxScore], sparse \in [points -> 1..MaxScore] :
       LET req == [scoped |-> scoped, ids |-> IF scoped THEN ids ELSE {},
                   limit |-> limit, dense |-> dense, sparse |-> sparse]
       IN \E d \in Retrieve(points, req, dense), sp \in Retrieve(points, req, sparse) :
            \E m \in Merge(d, sp, limit) :
              /\ search_req' = req
              /\ search_res' = [dense |-> d, sparse |-> sp, results |-> SearchResponse(m)]
  /\ emitted' = <<>>
  /\ UNCHANGED <<resources, points, queue, running, worker_task, tasks, stopping,
                 booted, nTasks, nJobs, nEnq, nFaults, nStops, attempts, fails,
                 outcome, spawned, store_up>>
  /\ UNCHANGED bcvars
  /\ UNCHANGED wsvars
  /\ UNCHANGED <<status_res, doc, chunks>>

\* ------------------------------------------------------- status query
\* a missing row answered as a failed request
get_ingestion_status_404(r) ==
  IF ~resources[r].exists
    THEN [resource_id |-> r, status |-> "failed", error |-> "HTTP 404"]
    ELSE [resource_id |-> r, status |-> resources[r].processing_stage,
          error |-> resources[r].last_error]

\* get_ingestion_status: the committed processing_stage and last_error of
\* the row, or todo / "Resource not found" when the select finds no row
get_ingestion_status(r) ==
  IF ~resources[r].exists
    THEN [resource_id |-> r, status |-> "todo", error |-> "Resource not found"]
    ELSE [resource_id |-> r, status |-> resources[r].processing_stage,
          error |-> resources[r].last_error]

\* GET /ingest/status/{resource_id}, served at any moment
GetStatus(r) ==
  /\ status_res[r] = NoStatus
  /\ status_res' = [status_res EXCEPT ![r] = get_ingestion_status(r)]
  /\ emitted' = <<>>
  /\ UNCHANGED <<resources, points, queue, running, worker_task, tasks, stopping,
                 booted, nTasks, nJobs, nEnq, nFaults, nStops, attempts, fails,
                 outcome, spawned, store_up>>
  /\ UNCHANGED bcvars
  /\ UNCHANGED wsvars
  /\ UNCHANGED <<search_req, search_res, doc, chunks>>

\* ------------------------------------------------------------- chunker
\* TextChunk.page_number = None
NoPage == 0

\* _parse_pdf_sync: "[Page n]" and the text of page n, for every page that
\* has text; ws[n] is the number of words of page n
RECURSIVE PdfText(_, _)
PdfText(ws, n) ==
  IF n > Len(ws) THEN <<>>
  ELSE <<n>> \o [i \in 1..ws[n] |-> 0] \o PdfText(ws, n + 1)

\* the texts chunk_text is given: PDF text, or inline text without markers
Texts ==
  {PdfText(ws, 1) : ws \in UNION {[1..n -> 1..MaxWords] : n \in 1..MaxPages}}
    \cup {[i \in 1..n |-> 0] : n \in 2..MaxWords}

RECURSIVE SortSet(_)
SortSet(S) ==
  IF S = {} THEN <<>>
  ELSE LET m == CHOOSE x \in S : \A y \in S : x <= y
       IN <<m>> \o SortSet(S \ {m})

\* SentenceSplitter.split_text: the text cut after the positions of C into
\* consecutive chunks, each but the first starting up to ov tokens before
\* the end of the one before it (chunk_overlap)
Slices(text, C, ov) ==
  LET ends == SortSet(C \cup {Len(text)})
      from(i) == IF i = 1 THEN 1
                 ELSE LET prev == IF i = 2 THEN 0 ELSE ends[i - 2]
                      IN ends[i - 1] + 1 - Min2(ov, ends[i - 1] - prev - 1)
  IN [i \in 1..Len(ends) |-> [start |-> from(i), end |-> ends[i]]]

Markers(text, a, b) == {i \in a..b : text[i] > 0}

\* chunk_text: "page_match = page_pattern.search(chunk)": the first marker
\* inside the chunk, None when the chunk holds no marker
page_number(text, sl) ==
  IF Markers(text, sl.start, sl.end) = {} THEN NoPage
  ELSE text[CHOOSE i \in Markers(text, sl.start, sl.end) :
              \A k \in Markers(text, sl.start, sl.end) : i <= k]

\* chunk_text: one TextChunk per chunk of the splitter, indexed from 0
TextChunks(text, sls) ==
  [i \in 1..Len(sls) |->
     [start |-> sls[i].start, end |-> sls[i].end, chunk_index |-> i - 1,
      page_number |-> page_number(text, sls[i]),
      token_count |-> Cardinality({k \in sls[i].start..sls[i].end : text[k] = 0})]]

\* VectorService.chunk_text on the extracted text
ChunkText ==
  /\ chunks = <<>> /\ doc # <<>>
  /\ \E C \in SUBSET (1..(Len(doc) - 1)), ov \in 0..MaxOverlap :
       chunks' = TextChunks(doc, Slices(doc, C, ov))
  /\ emitted' = <<>>
  /\ UNCHANGED <<resources, points, queue, running, worker_task, tasks, stopping,
                 booted, nTasks, nJobs, nEnq, nFaults, nStops, attempts, fails,
                 outcome, spawned, store_up>>
  /\ UNCHANGED bcvars
  /\ UNCHANGED wsvars
  /\ UNCHANGED <<search_req, search_res, status_res, doc>>

\* ------------------------------------------------------------------ Next
\* The ingestion pipeline under a worker that keeps running.
Next ==
  \/ Startup
  \/ \E r \in Resources, a \in JobActions : Enqueue(r, a)
  \/ \E t \in TaskIds : LoopCheck(t)
  \/ \E t \in TaskIds : Take(t)
  \/ \E t \in TaskIds : Fetch(t)
  \/ \E t \in TaskIds : Parse(t)
  \/ \E t \in TaskIds : DeleteOld(t)
  \/ \E t \in TaskIds : Upsert(t)
  \/ \E t \in TaskIds : Commit(t)
  \/ \E t \in TaskIds : DeleteJob(t)

Spec == Init /\ [][Next]_vars

\* The event loop runs every task that is ready: a worker step that stays
\* possible is taken, and every awaited call of the processor returns or
\* raises.  Requests and the startup are not forced.
WorkerFairness ==
  \A t \in TaskIds :
    /\ WF_vars(LoopCheck(t))
    /\ WF_vars(Take(t))
    /\ WF_vars(Fetch(t))
    /\ WF_vars(Parse(t))
    /\ WF_vars(DeleteOld(t))
    /\ WF_vars(Upsert(t))
    /\ WF_vars(Commit(t))
    /\ WF_vars(DeleteJob(t))

SpecLive == Init /\ [][Next]_vars /\ WorkerFairness

\* The same with the lifecycle calls start_worker and stop_worker.
NextControl ==
  \/ Next
  \/ StartWorker
  \/ StopBegin
  \/ \E t \in TaskIds : StopJoin(t)
  \/ \E t \in TaskIds : StopTimeout(t)

SpecControl == InitControl /\ [][NextControl]_vars

\* The outcomes of a job: one row, a store that answers or is unreachable
\* for the whole run, and subscribers of the progress stream.
InitOutcomes ==
  /\ \E d1 \in InitDurable(1) :
       /\ resources = [r \in Resources |-> IF r = 1 THEN d1.row ELSE AbsentRow]
       /\ points = d1.pts
  /\ InitVolatile
  /\ InitStream
  /\ doc = <<>>
  /\ store_up \in BOOLEAN

NextOutcomes ==
  \/ Next
  \/ Subscribe

SpecOutcomes == InitOutcomes /\ [][NextOutcomes]_vars

\* The progress stream on its own: subscribers that come, read and go, and
\* broadcast calls in any order.
InitBroadcast ==
  /\ resources = [r \in Resources |-> AbsentRow]
  /\ points = {}
  /\ InitVolatile
  /\ InitStream
  /\ doc = <<>>
  /\ store_up = TRUE

NextBroadcast ==
  \/ Subscribe
  \/ \E s \in SubIds : Unsubscribe(s)
  \/ \E s \in SubIds : Read(s)
  \/ \E ty \in {"progress", "result"} : Broadcast(ty)

SpecBroadcast == InitBroadcast /\ [][NextBroadcast]_vars

\* The producers against receivers that do not cooperate: subscribers of the
\* stream that never read, and WebSocket peers that are slow or dead.
NextChannels ==
  \/ Subscribe
  \/ Broadcast("progress")
  \/ \E l \in {"ok", "slow", "dead"} : WsConnect(l)
  \/ NotifyProgress
  \/ \E m \in 1..MaxNotify : WsBroadcast(m)
  \/ \E c \in ConnIds, m \in 1..MaxNotify : WsSend(c, m)
  \/ \E c \in ConnIds, m \in 1..MaxNotify : WsSendFails(c, m)
  \/ WsClosed

SpecChannels == InitBroadcast /\ [][NextChannels]_vars

\* The processor's progress callbacks over the WebSocket channel: one
\* pending row, its job with at most one transient fault, and peers that
\* are healthy, slow or dead.
InitProgress ==
  /\ \E d1 \in InitDurable(1) :
       /\ d1.row.exists /\ ~d1.row.is_deleted
       /\ d1.row.sync_status = "pending" /\ d1.row.processing_stage = "todo"
       /\ resources = [r \in Resources |-> IF r = 1 THEN d1.row ELSE AbsentRow]
       /\ points = d1.pts
  /\ InitVolatile
  /\ InitStream
  /\ doc = <<>>
  /\ store_up = TRUE

NextProgress ==
  \/ ProgressCallback
  \/ emitted = <<>> /\ Startup
  \/ emitted = <<>> /\ \E t \in TaskIds : LoopCheck(t)
  \/ emitted = <<>> /\ \E t \in TaskIds : Take(t)
  \/ emitted = <<>> /\ \E t \in TaskIds : Fetch(t)
  \/ emitted = <<>> /\ \E t \in TaskIds : Parse(t)
  \/ emitted = <<>> /\ \E t \in TaskIds : Upsert(t)
  \/ emitted = <<>> /\ \E t \in TaskIds : Commit(t)
  \/ emitted = <<>> /\ \E l \in {"ok", "slow", "dead"} : WsConnect(l)
  \/ emitted = <<>> /\ \E m \in ws_queued : WsBroadcast(m)
  \/ emitted = <<>> /\ \E tk \in ws_tasks : WsSend(tk.conn, tk.msg)
  \/ emitted = <<>> /\ \E tk \in ws_tasks : WsSendFails(tk.conn, tk.msg)
  \/ emitted = <<>> /\ WsClosed

SpecProgress == InitProgress /\ [][NextProgress]_vars

\* Re-ingestion after a failure: a row the processor left in error whose
\* content has been replaced since (no processor step clears last_error
\* before the final one).
InitReingest ==
  /\ \E c \in {"none", "blank", "nochunk", "one"},
        e \in {<<"chunking", "FileNotFoundError">>, <<"embedding", "QdrantError">>},
        d2 \in InitBystander(2) :
       /\ resources = [r \in Resources |->
                         IF r = 1 THEN Row("error", e[1], e[2], NULL, c, FALSE) ELSE d2.row]
       /\ points = d2.pts
  /\ InitVolatile
  /\ InitStream
  /\ doc = <<>>
  /\ store_up = TRUE

SpecReingest == InitReingest /\ [][Next]_vars

\* The collection a search runs against: chunks of two resources and a
\* point an earlier execution left for a chunk that has been written again.
IndexPoints ==
  ChunkPoints(1, "two", <<1, 1>>) \cup ChunkPoints(2, "one", <<2, 1>>)
    \cup {Point(1, 0, "old", <<0, 0>>)}

InitSearch ==
  /\ resources = [r \in Resources |-> AbsentRow]
  /\ points \in SUBSET IndexPoints
  /\ InitVolatile
  /\ InitStream
  /\ doc = <<>>
  /\ store_up = TRUE

NextSearch == SearchHybrid

SpecSearch == InitSearch /\ [][NextSearch]_vars

\* The pipeline of one resource with status queries made at any moment; the
\* second id has no row.
InitStatus ==
  /\ \E d1 \in InitDurable(1) :
       /\ resources = [r \in Resources |-> IF r = 1 THEN d1.row ELSE AbsentRow]
       /\ points = d1.pts
  /\ InitVolatile
  /\ InitStream
  /\ doc = <<>>
  /\ store_up = TRUE

NextStatus ==
  \/ Next
  \/ \E r \in Resources : GetStatus(r)

SpecStatus == InitStatus /\ [][NextStatus]_vars

\* The chunker on its own, over the texts the parser can hand it.
InitChunk ==
  /\ resources = [r \in Resources |-> AbsentRow]
  /\ points = {}
  /\ InitVolatile
  /\ InitStream
  /\ doc \in Texts
  /\ store_up = TRUE

NextChunk == ChunkText

SpecChunk == InitChunk /\ [][NextChunk]_vars

\* ================================================================ claims
InQueue(j) == \E i \in 1..Len(queue) : queue[i].id = j
QueueCount(q, r) == Cardinality({i \in 1..Len(q) : q[i].source_id = r})
RunningJobs == {tasks[t].job.id : t \in {u \in TaskIds : Busy(u)}}

\* C1: at any instant at most one call of the processor by a worker task is
\* active, under any sequence of enqueue, start_worker and stop_worker calls.
C1_AtMostOneExecution == Cardinality({t \in TaskIds : Busy(t)}) <= 1

\* C2: a job whose every attempt raises is attempted exactly max_retries + 1
\* times and then dropped; it is in the queue between its attempts and never
\* after the last one.
C2_RetryExhaustion ==
  \A j \in JobIds :
    /\ outcome[j] = "dropped" =>
         /\ attempts[j] = max_retries + 1
         /\ fails[j] = attempts[j]
         /\ ~InQueue(j)
         /\ j \notin RunningJobs
    /\ (attempts[j] >= 1 /\ fails[j] = attempts[j] /\ attempts[j] <= max_retries) =>
         /\ outcome[j] = "queued"
         /\ \E i \in 1..Len(queue) : queue[i].id = j /\ queue[i].retry_count = attempts[j]
    /\ attempts[j] <= max_retries + 1

\* a job has been dropped after its four attempts
C2_Witness == \E j \in JobIds : outcome[j] = "dropped" /\ attempts[j] = 4

\* C3, as stated: the startup scan on an empty queue enqueues exactly one
\* Ingest job for every row whose sync_status is pending, dirty or error and
\* none for any other row.
C3_EveryPendingRow ==
  [][(~booted /\ booted' /\ queue = <<>>) =>
       \A r \in Resources :
         QueueCount(queue', r) =
           IF resources[r].exists /\ resources[r].sync_status \in {"pending", "dirty", "error"}
             THEN 1 ELSE 0]_vars

\* C3, amended: the startup scan on an empty queue enqueues exactly one
\* Ingest job for every row that is not soft-deleted and whose sync_status is
\* pending, dirty or error, and none for a synced or a soft-deleted row.
C3_EveryLivePendingRow ==
  [][(~booted /\ booted' /\ queue = <<>>) =>
       /\ \A r \in Resources :
            QueueCount(queue', r) =
              IF /\ resources[r].exists
                 /\ ~resources[r].is_deleted
                 /\ resources[r].sync_status \in {"pending", "dirty", "error"}
                THEN 1 ELSE 0
       /\ \A i \in 1..Len(queue') : queue'[i].job_type = INGEST_RESOURCE]_vars

\* the scan has just run: one job for the error row 1, none for the synced row 2
C3_Witness ==
  /\ booted /\ nEnq = 0 /\ Len(queue) = 1
  /\ queue[1].source_id = 1 /\ queue[1].job_type = INGEST_RESOURCE
  /\ resources[1].sync_status = "error"
  /\ resources[2].sync_status = "synced"
  /\ \A j \in JobIds : attempts[j] = 0

\* C4: when an Ingest job with action updated for R completes successfully,
\* the store holds for R exactly the points of the new chunk set, whatever
\* the new content is: no point that existed before the job remains.
C4_UpdatedReplacesPoints ==
  [][\A t \in TaskIds :
       LET job == tasks[t].job
           r == job.source_id
       IN (/\ Busy(t)
           /\ job.job_type = INGEST_RESOURCE /\ job.action = "updated"
           /\ outcome'[job.id] = "ok"
           /\ resources'[r].exists /\ resources'[r].sync_status = "synced")
          => PointsOf(points', r) = ChunkPoints(r, resources[r].content, Attempt(job))]_vars

\* C5: the store holds at most one point per (resource_id, chunk_index).
C5_OnePointPerChunk ==
  \A p, q \in points :
    (p.resource_id = q.resource_id /\ p.chunk_index = q.chunk_index) => p = q

\* C6: entries leave the queue at its head only, each taken entry is the one
\* the worker attempts next, and every put, the put of a retried job
\* included, appends behind all entries waiting at that moment.
C6_FifoRetryAtTail ==
  [][/\ \/ queue' = queue
        \/ queue # <<>> /\ queue' = Tail(queue)
        \/ Len(queue') > Len(queue) /\ SubSeq(queue', 1, Len(queue)) = queue
     /\ \A t \in TaskIds :
          (tasks[t].st = "wait" /\ tasks'[t].st = "busy") =>
            (tasks'[t].job = Head(queue) /\ queue' = Tail(queue))
     /\ \A t \in TaskIds :
          (Busy(t) /\ fails'[tasks[t].job.id] > fails[tasks[t].job.id]
                   /\ outcome'[tasks[t].job.id] = "queued") =>
            queue' = Append(queue, [tasks[t].job EXCEPT !.retry_count = @ + 1])]_vars

\* a retried job waits behind a job that was waiting when it failed
C6_Witness ==
  /\ Len(queue) >= 2
  /\ queue[Len(queue)].retry_count >= 1
  /\ queue[1].retry_count = 0 /\ queue[1].job_type # "None"

\* C7: in every reachable state a row whose sync_status is synced has
\* processing_stage done.
C7_SyncedImpliesDone ==
  \A r \in Resources :
    (resources[r].exists /\ resources[r].sync_status = "synced") =>
      resources[r].processing_stage = "done"

\* C8: in every reachable state a row whose sync_status is error has a
\* last_error that is not null.
C8_ErrorHasMessage ==
  \A r \in Resources :
    (resources[r].exists /\ resources[r].sync_status = "error") =>
      resources[r].last_error # NULL

\* both error paths have run: the content-error return for row 1, the
\* exception handler for row 2
C8_Witness ==
  /\ resources[1].sync_status = "error" /\ resources[1].last_error = "NotImplementedError"
  /\ resources[2].sync_status = "error" /\ resources[2].last_error = "QdrantError"

\* C9: once an execution has made its first write, no step taken while it
\* runs lowers the row's processing_stage in todo < chunking < embedding <
\* done; and the first write of every execution, retries included, sets the
\* stage to chunking.
C9_StageMonotonic ==
  [][\A t \in TaskIds :
       LET job == tasks[t].job
           r == job.source_id
       IN (Busy(t) /\ job.job_type = INGEST_RESOURCE) =>
            /\ (tasks[t].pc # "fetch") =>
                 StageRank(resources'[r].processing_stage)
                   >= StageRank(resources[r].processing_stage)
            /\ (tasks[t].pc = "fetch" /\ tasks'[t] # tasks[t] /\ resources[r].exists) =>
                 resources'[r].processing_stage = "chunking"]_vars

\* a retry of a job has set the stage to chunking again and reached embedding
C9_Witness ==
  \E t \in TaskIds :
    /\ Busy(t) /\ tasks[t].job.retry_count >= 1 /\ tasks[t].pc = "commit"
    /\ resources[tasks[t].job.source_id].processing_stage = "embedding"

\* C10: a Delete job for R that meets no fault returns normally, removes
\* every point whose resource_id is R, leaves all other points and all rows
\* as they are; when R has no points (also after an earlier Delete job) it
\* changes nothing.
C10_DeleteJob ==
  [][\A t \in TaskIds :
       LET job == tasks[t].job
           r == job.source_id
       IN (Busy(t) /\ job.job_type = DELETE_RESOURCE /\ tasks'[t] # tasks[t]
             /\ nFaults' = nFaults) =>
            /\ outcome'[job.id] = "ok"
            /\ PointsOf(points', r) = {}
            /\ \A o \in Resources \ {r} : PointsOf(points', o) = PointsOf(points, o)
            /\ points' \subseteq points
            /\ (PointsOf(points, r) = {} => points' = points)
            /\ resources' = resources]_vars

\* a Delete job for row 1 has removed its points and left those of row 2
C10_Witness ==
  \E j \in JobIds :
    /\ spawned[j].job_type = DELETE_RESOURCE /\ spawned[j].source_id = 1
    /\ outcome[j] = "ok"
    /\ resources[1].sync_status = "synced"
    /\ PointsOf(points, 1) = {}
    /\ PointsOf(points, 2) # {}

\* the last entry a step has appended to a subscriber's buffer, if any
Appended(s) ==
  IF Len(buffers'[s]) = Len(buffers[s]) + 1 THEN <<buffers'[s][Len(buffers'[s])]>>
  ELSE <<>>

\* the step ends a failed attempt of the Ingest job of task t: the
\* processor raised, or it returned on a content error
FailedAttempt(t) ==
  LET job == tasks[t].job
      r == job.source_id
  IN /\ Busy(t) /\ job.job_type = INGEST_RESOURCE
     /\ \/ fails'[job.id] > fails[job.id]
        \/ /\ tasks[t].pc = "parse" /\ outcome'[job.id] = "ok"
           /\ ~HasInline(resources[r].content)
           /\ resources[r].content \in {"unsupported", "missing"}

\* the step ends a successful execution of the Ingest job of task t
SucceededAttempt(t) ==
  LET job == tasks[t].job
      r == job.source_id
  IN /\ Busy(t) /\ job.job_type = INGEST_RESOURCE
     /\ tasks[t].pc \in {"parse", "commit"}
     /\ outcome'[job.id] = "ok"
     /\ resources'[r].sync_status = "synced"

\* C11: every failed ingestion attempt, content error or unhandled
\* exception, puts a Result event (success false, with the message) in the
\* buffer of every subscriber registered on the progress stream at that time.
C11_FailureResultEvent ==
  [][\A t \in TaskIds : FailedAttempt(t) =>
       \A s \in Range(subscribers) :
         /\ Appended(s) # <<>>
         /\ Appended(s)[1].type = "result"]_vars

\* C12: every successful Ingest execution emits exactly one success Result
\* event, with one entry per chunk produced: each registered subscriber's
\* buffer grows by that one event.
C12_SuccessResultEvent ==
  [][\A t \in TaskIds : SucceededAttempt(t) =>
       \A s \in Range(subscribers) :
         /\ Appended(s) # <<>>
         /\ Appended(s)[1].type = "result"
         /\ buffers'[s] = Append(buffers[s], Appended(s)[1])]_vars

\* C13: while the vector store is unreachable, an Ingest job that has been
\* dropped made max_retries + 1 attempts, every one of them raised to the
\* queue, and its row has sync_status error with a non-null last_error; and
\* no Ingest job that needs the store ends as completed.
C13_UnreachableStore ==
  \A j \in JobIds :
    (~store_up /\ spawned[j].job_type = INGEST_RESOURCE) =>
      LET r == spawned[j].source_id IN
        /\ outcome[j] = "dropped" =>
             /\ attempts[j] = max_retries + 1
             /\ fails[j] = attempts[j]
             /\ resources[r].exists
             /\ resources[r].sync_status = "error"
             /\ resources[r].last_error # NULL
        /\ (outcome[j] = "ok" /\ resources[r].exists) =>
             resources[r].content \notin {"one", "two", "old", "url"}

\* the job of row 1 has been dropped after four failures on the store
C13_Witness ==
  /\ ~store_up
  /\ \E j \in JobIds :
       /\ spawned[j].job_type = INGEST_RESOURCE /\ spawned[j].source_id = 1
       /\ outcome[j] = "dropped" /\ fails[j] = 4
  /\ resources[1].last_error = "QdrantError"
  /\ resources[1].sync_status = "error"

\* C14: when parse_file fails with a content error (unsupported type,
\* missing file) the row is committed with sync_status error and the message
\* in last_error, the store is not touched, the processor returns normally
\* and the job is not put back: this attempt is its only one.
C14_ContentErrorTerminal ==
  [][\A t \in TaskIds :
       LET job == tasks[t].job
           r == job.source_id
           c == resources[r].content
       IN (/\ Busy(t) /\ tasks[t].pc = "parse" /\ tasks'[t] # tasks[t]
           /\ c \in {"unsupported", "missing"}) =>
            /\ resources'[r].sync_status = "error"
            /\ resources'[r].last_error =
                 (IF c = "unsupported" THEN "NotImplementedError" ELSE "FileNotFoundError")
            /\ points' = points
            /\ outcome'[job.id] = "ok"
            /\ fails' = fails
            /\ attempts'[job.id] = 1
            /\ queue' = queue
            /\ \A i \in 1..Len(queue') : queue'[i].id # job.id]_vars

\* the job of a row whose file is missing has ended after one attempt
C14_Witness ==
  \E j \in JobIds :
    /\ spawned[j].job_type = INGEST_RESOURCE /\ spawned[j].source_id = 1
    /\ outcome[j] = "ok" /\ attempts[j] = 1 /\ fails[j] = 0
    /\ resources[1].content = "missing"
    /\ resources[1].sync_status = "error"
    /\ resources[1].last_error = "FileNotFoundError"
    /\ resources[1].processing_stage = "chunking"

\* C15: an Ingest job whose row is not found returns normally: no row and
\* no point changes, no progress callback is made, nothing is put in a
\* subscriber's buffer, and the job is not put back in the queue.
C15_NotFoundSilent ==
  [][\A t \in TaskIds :
       LET job == tasks[t].job
           r == job.source_id
       IN (/\ Busy(t) /\ job.job_type = INGEST_RESOURCE
           /\ tasks[t].pc = "fetch" /\ tasks'[t] # tasks[t]
           /\ ~resources[r].exists) =>
            /\ resources' = resources
            /\ points' = points
            /\ emitted' = <<>>
            /\ buffers' = buffers
            /\ outcome'[job.id] = "ok"
            /\ fails' = fails
            /\ queue' = queue]_vars

\* an Ingest job for the missing row 2 has ended while a subscriber listens
C15_Witness ==
  /\ subscribers # <<>>
  /\ \E j \in JobIds :
       /\ spawned[j].job_type = INGEST_RESOURCE /\ spawned[j].source_id = 2
       /\ ~resources[2].exists
       /\ outcome[j] = "ok" /\ attempts[j] = 1

\* C16: an Ingest job whose row has no text (empty or blank content, no
\* file) or whose text gives no chunk ends as a success: synced, done,
\* indexed_hash = file_hash, no point written, processor returns normally
\* and the job is not put back.
C16_ZeroChunkSuccess ==
  [][\A t \in TaskIds :
       LET job == tasks[t].job
           r == job.source_id
           c == resources[r].content
       IN (/\ Busy(t) /\ tasks[t].pc = "parse" /\ tasks'[t] # tasks[t]
           /\ c \in {"none", "blank", "nochunk"}) =>
            /\ resources'[r].sync_status = "synced"
            /\ resources'[r].processing_stage = "done"
            /\ resources'[r].indexed_hash = FileHash(r)
            /\ points' = points
            /\ outcome'[job.id] = "ok"
            /\ fails' = fails
            /\ queue' = queue]_vars

\* the job of a row whose text gives no chunk has ended as a success
C16_Witness ==
  \E j \in JobIds :
    /\ spawned[j].source_id = 1 /\ outcome[j] = "ok" /\ attempts[j] = 1
    /\ resources[1].content = "nochunk"
    /\ resources[1].sync_status = "synced"
    /\ resources[1].indexed_hash = FileHash(1)
    /\ points = {}

\* C17: when an Ingest execution with at least one chunk reaches its final
\* commit without an exception, the row ends synced, done, with
\* indexed_hash = file_hash and last_error null, whatever it held before.
C17_SuccessFinalState ==
  [][\A t \in TaskIds :
       LET job == tasks[t].job
           r == job.source_id
       IN (/\ Busy(t) /\ tasks[t].pc = "commit"
           /\ outcome'[job.id] = "ok") =>
            /\ chunk_text(resources[r].content) >= 1
            /\ resources'[r].sync_status = "synced"
            /\ resources'[r].processing_stage = "done"
            /\ resources'[r].indexed_hash = FileHash(r)
            /\ resources'[r].last_error = NULL]_vars

\* a job that failed once, leaving the row in error with a message, has
\* succeeded on its retry and the message is gone
C17_Witness ==
  \E j \in JobIds :
    /\ spawned[j].source_id = 1 /\ fails[j] >= 1 /\ outcome[j] = "ok"
    /\ resources[1].sync_status = "synced"
    /\ resources[1].last_error = NULL
    /\ PointsOf(points, 1) # {}

\* every message a subscriber's queue has been given, read or not
Received(s) == delivered[s] \o buffers[s]

\* the number of broadcasts made up to the removal of a subscriber, or up to
\* now if it is still registered
RegisteredUntil(s) == IF unregAt[s] = -1 THEN nBcast ELSE unregAt[s]

\* C18: a subscriber's queue has been given exactly the messages broadcast
\* while it was registered, each once, in the order of the broadcast calls;
\* so two subscribers registered over the same interval hold the same
\* sequence.
C18_EachEventOnceInOrder ==
  \A s \in SubIds :
    /\ Len(Received(s)) = (IF s <= nSubs THEN RegisteredUntil(s) - regAt[s] ELSE 0)
    /\ \A i \in 1..Len(Received(s)) : Received(s)[i].id = regAt[s] + i

\* two subscribers registered before the first broadcast hold both
\* messages; one has read them, the other has read nothing
C18_Witness ==
  /\ nBcast = 2 /\ subscribers = <<1, 2>>
  /\ regAt[1] = 0 /\ regAt[2] = 0
  /\ Len(delivered[1]) = 2 /\ Len(buffers[2]) = 2

C20_NoReplay ==
  \A s \in SubIds :
    \A i \in 1..Len(Received(s)) :
      /\ s <= nSubs
      /\ Received(s)[i].id > regAt[s]

\* a subscriber that registered after the first broadcast holds the second
\* message only
C20_Witness ==
  \E s \in Range(subscribers) :
    /\ regAt[s] = 1 /\ nBcast = 2
    /\ Len(Received(s)) = 1 /\ Received(s)[1].id = 2

\* C21: the registry holds exactly the subscribers that have registered and
\* not disconnected, each once; the queue of a disconnected subscriber has
\* been given no message broadcast after its removal.
C21_DisconnectRemoves ==
  /\ Range(subscribers) = {s \in 1..nSubs : unregAt[s] = -1}
  /\ \A i, k \in 1..Len(subscribers) : subscribers[i] = subscribers[k] => i = k
  /\ \A s \in SubIds :
       unregAt[s] # -1 =>
         /\ s \notin Range(subscribers)
         /\ \A i \in 1..Len(Received(s)) : Received(s)[i].id <= unregAt[s]

\* the second subscriber left after the first broadcast; the second
\* broadcast reached the first subscriber only
C21_Witness ==
  /\ nBcast = 2 /\ subscribers = <<1>>
  /\ regAt[1] = 0 /\ regAt[2] = 0 /\ unregAt[2] = 1
  /\ Len(Received(1)) = 2 /\ Len(Received(2)) = 1

\* C22: enqueue never waits for the worker: a request can be accepted in
\* every state of the running process, also while a job is being processed
\* and others wait, and the step puts the new job behind the waiting ones and
\* changes nothing of the worker.
C22_EnqueueReturnsAtOnce ==
  /\ []((booted /\ nEnq < MaxEnqueue) =>
          \A r \in Resources, a \in {"created", "updated", "deleted"} :
            ENABLED Enqueue(r, a))
  /\ [][nEnq' = nEnq + 1 =>
          /\ Len(queue') = Len(queue) + 1
          /\ SubSeq(queue', 1, Len(queue)) = queue
          /\ queue'[Len(queue')].id = nJobs + 1
          /\ queue'[Len(queue')].retry_count = 0
          /\ tasks' = tasks
          /\ attempts' = attempts]_vars

\* the worker is inside the first job, the second waits, and the job of a
\* request made meanwhile is behind it
C22_Witness ==
  /\ \E t \in TaskIds : Busy(t) /\ tasks[t].job.id = 1
  /\ nEnq = 1 /\ Len(queue) = 2
  /\ queue[1].id = 2 /\ queue[2].id = 3
  /\ attempts[3] = 0

\* C23: once stop_worker has begun (and the worker has not been started
\* again), a job passed to enqueue is not added to the queue.
C23_NoEnqueueAfterStop ==
  [][(nStops >= 1 /\ ~running /\ nEnq' = nEnq + 1) => queue' = queue]_vars

\* C24: when a stop_worker call returns, the worker task it waited for has
\* ended and, unless start_worker has been called since, no task is inside
\* a job and none is about to take a job from the queue.
C24_StopWorkerEndsWork ==
  [][\A t \in stopping :
       t \notin stopping' =>
         /\ tasks'[t].st = "ended"
         /\ ~running' =>
              \A u \in TaskIds :
                /\ tasks'[u].st # "busy"
                /\ tasks'[u].st = "wait" =>
                     (queue' = <<>> \/ Head(queue').job_type = "None")]_vars

\* C25: every job the startup scan puts in the queue is an Ingest job with
\* retry_count 0, with action Updated when its row is dirty and Created when
\* the row is pending or error.
C25_RebuiltJobShape ==
  [][(~booted /\ booted') =>
       \A i \in 1..Len(queue') :
         LET job == queue'[i]
             st == resources[job.source_id].sync_status
         IN /\ job.job_type = INGEST_RESOURCE
            /\ job.retry_count = 0
            /\ st \in {"pending", "dirty", "error"}
            /\ st = "dirty" => job.action = "updated"
            /\ st \in {"pending", "error"} => job.action = "created"]_vars

\* the scan has enqueued a Created job for a row in error and an Updated
\* job for a dirty row
C25_Witness ==
  /\ booted /\ Len(queue) = 2
  /\ resources[1].sync_status = "error" /\ resources[2].sync_status = "dirty"
  /\ \E i, k \in 1..2 :
       /\ queue[i].source_id = 1 /\ queue[i].action = "created"
       /\ queue[k].source_id = 2 /\ queue[k].action = "updated"

\* C26: a search scoped to a list of resource ids returns only chunks of
\* those resources, and neither its dense nor its sparse retrieval holds a
\* chunk of another resource.
C26_ScopedSearch ==
  (search_req.limit > 0 /\ search_req.scoped) =>
    /\ \A i \in 1..Len(search_res.results) :
         search_res.results[i].resource_id \in search_req.ids
    /\ \A i \in 1..Len(search_res.dense) :
         search_res.dense[i].resource_id \in search_req.ids
    /\ \A i \in 1..Len(search_res.sparse) :
         search_res.sparse[i].resource_id \in search_req.ids

\* a search scoped to resource 1 has returned a chunk of it although the
\* chunk of resource 2 scores higher under both models
C26_Witness ==
  /\ search_req.limit > 0 /\ search_req.scoped /\ search_req.ids = {1}
  /\ Len(search_res.results) >= 1
  /\ \E p \in points :
       /\ p.resource_id = 2
       /\ \A q \in points :
            q.resource_id = 1 =>
              /\ search_req.dense[p] > search_req.dense[q]
              /\ search_req.sparse[p] > search_req.sparse[q]

C28_StatusQuery ==
  [][\A r \in Resources :
       status_res'[r] # status_res[r] =>
         /\ status_res'[r].resource_id = r
         /\ ~resources[r].exists =>
              /\ status_res'[r].status = "todo"
              /\ status_res'[r].error = "Resource not found"
         /\ resources[r].exists =>
              /\ status_res'[r].status = resources[r].processing_stage
              /\ status_res'[r].error = resources[r].last_error]_vars

\* the id without a row has been answered "Resource not found", and the
\* row whose file is missing has been answered with its stage and message
C28_Witness ==
  /\ ~resources[2].exists
  /\ status_res[2] = [resource_id |-> 2, status |-> "todo", error |-> "Resource not found"]
  /\ status_res[1] = [resource_id |-> 1, status |-> "chunking", error |-> "FileNotFoundError"]
  /\ \E j \in JobIds : spawned[j].source_id = 1 /\ outcome[j] = "ok"

\* C29: every chunk's page_number is the page of the last marker at or
\* before the chunk's first token: a chunk without a marker has the page of
\* the marker before it, and a chunk that runs over a page boundary has the
\* earlier page.
C29_PageInherited ==
  \A i \in 1..Len(chunks) :
    LET seen == Markers(doc, 1, chunks[i].start)
        last == CHOOSE m \in seen : \A k \in seen : m >= k
    IN chunks[i].page_number = (IF seen = {} THEN NoPage ELSE doc[last])

\* C30: with the worker running and every processor call terminating,
\* every job that is in the queue or being processed eventually has a
\* terminal outcome (its processor returned, or it was dropped after its
\* retries), and once no more jobs are enqueued the queue becomes empty and
\* stays empty.
C30_EveryJobEnds ==
  /\ \A j \in JobIds :
       (outcome[j] \in {"queued", "running"}) ~> (outcome[j] \in {"ok", "dropped"})
  /\ <>[](queue = <<>> /\ \A t \in TaskIds : ~Busy(t))

\* three jobs have ended, one of them dropped after its retries, and the
\* queue is empty with the worker waiting
C30_Witness ==
  /\ nJobs = 3 /\ queue = <<>>
  /\ \A j \in 1..3 : outcome[j] \in {"ok", "dropped"}
  /\ \E j \in 1..3 : outcome[j] = "dropped" /\ attempts[j] = max_retries + 1
  /\ \E t \in TaskIds : tasks[t].st = "wait"

\* C31: a processor exception never ends the worker loop: the step in
\* which a job fails leaves the worker at its next get() with the waiting
\* jobs still ahead of the retried one, a waiting worker can always take
\* the head of a non-empty queue, and every job that waits is attempted,
\* however often another job fails.
C31_FailureKeepsWorker ==
  /\ [][\A t \in TaskIds :
          (Busy(t) /\ fails'[tasks[t].job.id] > fails[tasks[t].job.id]) =>
            /\ tasks'[t].st = "wait"
            /\ SubSeq(queue', 1, Len(queue)) = queue]_vars
  /\ [](\A t \in TaskIds : (tasks[t].st = "wait" /\ queue # <<>>) => ENABLED Take(t))
  /\ \A j \in JobIds : (outcome[j] = "queued" /\ attempts[j] = 0) ~> (attempts[j] >= 1)

\* the job of resource 1 has failed and waits for its retry while the job
\* of resource 2, which was behind it, is being processed
C31_Witness ==
  \E j, k \in JobIds, t \in TaskIds :
    /\ spawned[j].source_id = 1 /\ fails[j] >= 1 /\ outcome[j] = "queued"
    /\ spawned[k].source_id = 2 /\ k > j
    /\ Busy(t) /\ tasks[t].job.id = k

\* C32: a job whose processor call returns normally is never put back in
\* the queue: the returning step leaves the queue as it is, the call that
\* returns is attempt retry_count + 1 with retry_count <= max_retries, and
\* from then on the job is in no queue, in no worker, and is not attempted
\* again; every attempt before the one that returned raised.
C32_NoRetryAfterSuccess ==
  /\ [](\A j \in JobIds :
          outcome[j] = "ok" =>
            /\ ~InQueue(j)
            /\ j \notin RunningJobs
            /\ attempts[j] = fails[j] + 1
            /\ attempts[j] <= max_retries + 1)
  /\ [][\A t \in TaskIds :
          (Busy(t) /\ outcome'[tasks[t].job.id] = "ok") =>
            /\ queue' = queue
            /\ tasks[t].job.retry_count = attempts[tasks[t].job.id] - 1
            /\ tasks[t].job.retry_count <= max_retries]_vars
  /\ [][\A j \in JobIds :
          outcome[j] = "ok" => (outcome'[j] = "ok" /\ attempts'[j] = attempts[j])]_vars

\* a job that raised on its first attempt has returned normally on its
\* second and the worker has gone on to a later job
C32_Witness ==
  \E j, k \in JobIds :
    /\ outcome[j] = "ok" /\ attempts[j] = 2 /\ fails[j] = 1
    /\ k # j /\ attempts[k] >= 1 /\ outcome[k] \in {"running", "ok"}
    /\ spawned[k].source_id # spawned[j].source_id

\* the stage a percentage is reported with
StageOf(pct) ==
  CASE pct \in {10, 30} -> "chunking"
    [] pct \in {50, 80} -> "embedding"
    [] pct = 100 -> "done"
    [] OTHER -> "-"

\* the k-th and the i-th notify_progress call were made by the same execution
SameExecution(i, k) ==
  /\ ws_log[i].exec = ws_log[k].exec
  /\ ws_log[i].ev.resource_id = ws_log[k].ev.resource_id

Recovered(j) == j >= 1 /\ j <= nJobs - nEnq
Requested(j) == j > nJobs - nEnq /\ j <= nJobs

\* C34, as stated: the startup scan enqueues all its jobs before any
\* request is accepted, so in the queue every recovered job precedes every
\* job of a request.
C34_RecoveredPrecedeNew ==
  \A i, k \in 1..Len(queue) :
    (Recovered(queue[i].id) /\ Requested(queue[k].id)) => i < k

\* C34, amended: no request is accepted before the startup scan has run,
\* the scan runs once, and every recovered job that has not been attempted
\* yet precedes every job of a request in the queue (a recovered job put
\* back for a retry is behind the jobs that were waiting).
C34_UntriedRecoveredPrecedeNew ==
  /\ [](~booted =>
          /\ queue = <<>> /\ nJobs = 0
          /\ \A r \in Resources, a \in JobActions : ~ENABLED Enqueue(r, a))
  /\ [][booted => (booted' /\ nJobs' - nEnq' = nJobs - nEnq)]_vars
  /\ [](\A i, k \in 1..Len(queue) :
          (Recovered(queue[i].id) /\ queue[i].retry_count = 0 /\ Requested(queue[k].id))
            => i < k)

\* the scan has enqueued two jobs; the first is being processed, the second
\* waits untried ahead of the job of a request
C34_Witness ==
  /\ nJobs = 3 /\ nEnq = 1
  /\ Len(queue) = 2
  /\ queue[1].id = 2 /\ queue[1].retry_count = 0
  /\ queue[2].id = 3
  /\ outcome[1] = "running"

\* C35: when an Ingest job for R was enqueued before a Delete job for R,
\* no other job names R, and both jobs have a terminal outcome, the store
\* holds no point of R.
C35_DeleteAfterIngestLeavesNothing ==
  \A j, k \in JobIds :
    (/\ j < k
     /\ spawned[j].job_type = INGEST_RESOURCE /\ spawned[k].job_type = DELETE_RESOURCE
     /\ spawned[j].source_id = spawned[k].source_id
     /\ \A i \in JobIds \ {j, k} : spawned[i].source_id # spawned[j].source_id
     /\ outcome[j] \in {"ok", "dropped"} /\ outcome[k] \in {"ok", "dropped"})
    => PointsOf(points, spawned[j].source_id) = {}

\* C36: after stop_worker has returned and start_worker has been called
\* again, the worker runs: while _running is set and no stop_worker call is
\* in progress, the task start_worker created last is alive (at its loop
\* test, at get() or inside a job), so that waiting jobs are taken.
C36_RestartedWorkerRuns ==
  (running /\ stopping = {}) =>
    /\ worker_task # 0
    /\ tasks[worker_task].st \in {"loop", "wait", "busy"}

\* C37: a step sets sync_status to synced only as the last step of an
\* Ingest execution that returns normally: the final commit, made after
\* the upsert of all chunks of this execution has returned (its points are
\* in the store), or the commit of an execution that found nothing to
\* index; an execution that ends with an exception leaves the row not
\* synced unless it was synced before and the error could not be recorded.
C37_SyncedOnlyAfterUpsert ==
  /\ [][\A r \in Resources :
          (/\ resources'[r] # resources[r]
           /\ resources'[r].sync_status = "synced"
           /\ resources[r].sync_status # "synced" \/ resources'[r].processing_stage = "done")
          => \E t \in TaskIds :
               LET job == tasks[t].job
                   c == resources[r].content
               IN /\ Busy(t) /\ job.job_type = INGEST_RESOURCE /\ job.source_id = r
                  /\ outcome'[job.id] = "ok"
                  /\ \/ /\ tasks[t].pc = "commit"
                        /\ chunk_text(c) >= 1
                        /\ ChunkPoints(r, c, Attempt(job)) \subseteq points
                        /\ points' = points
                     \/ /\ tasks[t].pc = "parse"
                        /\ chunk_text(c) = 0
                        /\ points' = points]_vars
  /\ [][\A t \in TaskIds :
          LET job == tasks[t].job
              r == job.source_id
          IN (Busy(t) /\ job.job_type = INGEST_RESOURCE /\ fails'[job.id] > fails[job.id]) =>
               \/ resources'[r].sync_status # "synced"
               \/ resources'[r] = resources[r] /\ tasks[t].pc = "commit"]_vars

\* the first attempt raised at the upsert and left the row in error; the
\* retry has upserted its chunks and then marked the row synced
C37_Witness ==
  \E j \in JobIds :
    /\ spawned[j].job_type = INGEST_RESOURCE /\ spawned[j].source_id = 1
    /\ fails[j] = 1 /\ attempts[j] = 2 /\ outcome[j] = "ok"
    /\ resources[1].sync_status = "synced"
    /\ chunk_text(resources[1].content) >= 1
    /\ ChunkPoints(1, resources[1].content, <<j, 1>>) \subseteq points
    /\ ChunkPoints(1, resources[1].content, <<j, 0>>) \cap points = {}

\* C38: the step that completes an Ingest execution successfully, on the
\* zero-chunk paths as on the normal path, leaves the row synced with
\* last_error null, so that the status query reports no error for it.
C38_SyncedHasNoError ==
  [][\A t \in TaskIds :
       SucceededAttempt(t) =>
         LET r == tasks[t].job.source_id IN
           /\ resources'[r].sync_status = "synced"
           /\ resources'[r].last_error = NULL]_vars

\* C39: no step of an Ingest or Delete job for R, whether the job succeeds,
\* ends on a content error or raises, changes the row of another resource
\* (sync_status, processing_stage, indexed_hash, last_error) or the set of
\* points of another resource.
C39_OtherResourcesUntouched ==
  [][\A t \in TaskIds :
       (Busy(t) /\ tasks'[t] # tasks[t]) =>
         \A o \in Resources \ {tasks[t].job.source_id} :
           /\ resources'[o] = resources[o]
           /\ PointsOf(points', o) = PointsOf(points, o)]_vars

\* an Ingest job for row 1 has raised once and then succeeded, a Delete job
\* for row 1 has run as well, and row 2 is synced with the points it had
C39_Witness ==
  /\ \E j, k \in JobIds :
       /\ spawned[j].job_type = INGEST_RESOURCE /\ spawned[j].source_id = 1
       /\ fails[j] = 1 /\ outcome[j] = "ok"
       /\ spawned[k].job_type = DELETE_RESOURCE /\ spawned[k].source_id = 1
       /\ outcome[k] = "ok"
  /\ \A j \in JobIds : spawned[j].source_id # 2
  /\ resources[2].sync_status = "synced" /\ resources[2].processing_stage = "done"
  /\ PointsOf(points, 2) = ChunkPoints(2, "one", <<0, 0>>)

====
